---- MODULE Spec2Model ----
(***************************************************************************)
(* Model of src/association_rule_mining.py: calculate_support,             *)
(* all_itemsets and generate_rules.                                        *)
(*                                                                         *)
(* Items are modelled by integers; sorted() over items is the integer      *)
(* order.  A Python float that the program computes is always a quotient   *)
(* of small non-negative integers; it is modelled by the exact fraction    *)
(* <<numerator, denominator>> in lowest terms, and a comparison of two     *)
(* floats by the comparison of the two fractions (on the inputs within the *)
(* bounds below the program's float comparisons, and so its rule lists and  *)
(* their order, agree with the exact ones).  A call either returns          *)
(* a value or raises: [err |-> "none", val |-> v] is a normal return and   *)
(* [err |-> e, ...] an exception of class e.                               *)
(***************************************************************************)
EXTENDS Integers, Sequences, FiniteSets, TLC

(* ---------------- bounds of the model ---------------- *)
NumItems == 3
MaxTrans == 2
MaxSizeArg == 4

Items == 1..NumItems

(* the five milk/bread/diaper/beer transactions; the items are numbered in *)
(* their sorted order, beer < bread < diaper < milk                        *)
Grocery == [beer |-> 1, bread |-> 2, diaper |-> 3, milk |-> 4]
MilkExample ==
  << {Grocery.milk, Grocery.bread},
     {Grocery.bread, Grocery.diaper, Grocery.beer},
     {Grocery.milk, Grocery.diaper, Grocery.bread},
     {Grocery.bread, Grocery.beer},
     {Grocery.milk, Grocery.diaper} >>

RECURSIVE SeqsUpTo(_, _)
SeqsUpTo(S, n) ==
  IF n = 0 THEN { <<>> }
  ELSE LET shorter == SeqsUpTo(S, n - 1)
       IN shorter \cup { Append(s, x) : s \in {t \in shorter : Len(t) = n - 1}, x \in S }

TransactionLists == SeqsUpTo(SUBSET Items, MaxTrans) \cup { MilkExample }

(* ---------------- return values and exceptions ---------------- *)
Ok(v) == [err |-> "none", val |-> v]
Raise(e) == [err |-> e, val |-> <<>>]

(* ---------------- float arithmetic as exact fractions ---------------- *)
RECURSIVE GCD(_, _)
GCD(a, b) == IF b = 0 THEN a ELSE GCD(b, a % b)

Rat(n, d) == IF n = 0 THEN <<0, 1>> ELSE LET g == GCD(n, d) IN <<n \div g, d \div g>>

Less(x, y) == x[1] * y[2] < y[1] * x[2]
Geq(x, y) == ~Less(x, y)

DivideSubstZero(x, y) ==
  IF y[1] = 0 THEN Ok(<<0, 1>>) ELSE Ok(Rat(x[1] * y[2], x[2] * y[1]))

(* float / float: raises ZeroDivisionError on a zero divisor *)
Divide(x, y) ==
  IF y[1] = 0 THEN Raise("ZeroDivisionError") ELSE Ok(Rat(x[1] * y[2], x[2] * y[1]))

(* ---------------- helpers: sorted(), set(tuple), combinations ---------------- *)
RECURSIVE Sorted(_)
Sorted(S) ==
  IF S = {} THEN <<>>
  ELSE LET m == CHOOSE x \in S : \A y \in S : x <= y
       IN <<m>> \o Sorted(S \ {m})

SeqToSet(s) == { s[i] : i \in DOMAIN s }

(* itertools.combinations(pool, r) for r >= 0, in its emission order *)
RECURSIVE Combinations(_, _)
Combinations(pool, r) ==
  IF r = 0 THEN << <<>> >>
  ELSE IF Len(pool) < r THEN <<>>
  ELSE LET sub == Combinations(Tail(pool), r - 1)
           withHead == [i \in 1..Len(sub) |-> <<Head(pool)>> \o sub[i]]
       IN withHead \o Combinations(Tail(pool), r)

Universe(trans) == UNION { trans[i] : i \in DOMAIN trans }

(* ---------------- calculate_support ---------------- *)
CountIntersecting(trans, itemset) ==
  Cardinality({ i \in DOMAIN trans : itemset \cap trans[i] # {} })

(* line 27: the transactions the itemset is a subset of *)
SupportCount(trans, itemset) ==
  Cardinality({ i \in DOMAIN trans : itemset \subseteq trans[i] })

(* line 28: count / len(transactions) *)

calculate_support(trans, itemset) ==
  IF Len(trans) = 0 THEN Raise("ZeroDivisionError")
  ELSE Ok(Rat(SupportCount(trans, itemset), Len(trans)))

(* ---------------- all_itemsets ---------------- *)
(* the generator's output: the itemsets yielded, and the exception that    *)
(* ended the iteration (combinations() rejects a negative size)            *)
RECURSIVE ItemsetsFrom(_, _, _)
ItemsetsFrom(items, size, max_size) ==
  IF size > max_size THEN [yielded |-> <<>>, err |-> "none"]
  ELSE IF size < 0 THEN [yielded |-> <<>>, err |-> "ValueError"]
  ELSE LET combos == Combinations(items, size)
           rest == ItemsetsFrom(items, size + 1, max_size)
       IN [yielded |-> [i \in 1..Len(combos) |-> SeqToSet(combos[i])] \o rest.yielded,
           err |-> rest.err]

all_itemsets(trans, min_size, max_size) ==
  ItemsetsFrom(Sorted(Universe(trans)), min_size, max_size)


(* generate_rules enumerates sizes 1..3 *)
CacheMinSize == 1
CacheMaxSize == 3

CacheItemsetsFromPairs(trans) == all_itemsets(trans, CacheMinSize + 1, CacheMaxSize).yielded

CacheItemsets(trans) == all_itemsets(trans, CacheMinSize, CacheMaxSize).yielded

(* ---------------- the dict support_cache ---------------- *)
(* a dict is the sequence of its <<key, value>> items in insertion order *)
DictKeys(d) == { d[i][1] : i \in DOMAIN d }

DictGet(d, k) ==
  IF k \in DictKeys(d)
  THEN Ok(d[CHOOSE i \in DOMAIN d : d[i][1] = k][2])
  ELSE Raise("KeyError")

DictSet(d, k, v) ==
  IF k \in DictKeys(d)
  THEN [i \in DOMAIN d |-> IF d[i][1] = k THEN <<k, v>> ELSE d[i]]
  ELSE Append(d, <<k, v>>)

(* ---------------- generate_rules: one itemset, one split ---------------- *)
SkipSmallOnly(itemset, itemset_support, ms) == Cardinality(itemset) < 2

(* line 57: the itemsets that derive no rule *)
SkipItemset(itemset, itemset_support, ms) ==
  Cardinality(itemset) < 2 \/ Less(itemset_support, ms)

(* lines 60-62: the antecedents of an itemset, in the order they are tried *)
Antecedents(itemset) ==
  ItemsetsFrom(Sorted(itemset), 1, Cardinality(itemset) - 1).yielded

ConsequentWhole(itemset, antecedent) == itemset

Consequent(itemset, antecedent) == itemset \ antecedent

Confidence(itemset_support, antecedent_support) ==
  Divide(itemset_support, antecedent_support)

LiftSwapped(confidence, consequent_support) == Divide(consequent_support, confidence)

Lift(confidence, consequent_support) == Divide(confidence, consequent_support)

RetainStrict(confidence, mc) == Less(mc, confidence)

Retain(confidence, mc) == Geq(confidence, mc)

(* lines 62-69: the rule of one split, or the exception raised on the way *)
DeriveRule(cache, itemset, itemset_support, antecedent) ==
  LET consequent == Consequent(itemset, antecedent)
      antecedent_support == DictGet(cache, antecedent)
      consequent_support == DictGet(cache, consequent)
  IN IF antecedent_support.err # "none" THEN Raise(antecedent_support.err)
     ELSE IF consequent_support.err # "none" THEN Raise(consequent_support.err)
     ELSE LET confidence == Confidence(itemset_support, antecedent_support.val)
          IN IF confidence.err # "none" THEN Raise(confidence.err)
             ELSE LET lift == Lift(confidence.val, consequent_support.val)
                  IN IF lift.err # "none" THEN Raise(lift.err)
                     ELSE Ok([antecedent |-> antecedent, consequent |-> consequent,
                              support |-> itemset_support,
                              confidence |-> confidence.val, lift |-> lift.val])

(* ---------------- rules.sort(key=(lift, confidence, support), reverse=True) ---------------- *)
SortKey(r) == <<r.lift, r.confidence, r.support>>

KeyLess(k1, k2) ==
  \/ Less(k1[1], k2[1])
  \/ k1[1] = k2[1] /\ Less(k1[2], k2[2])
  \/ k1[1] = k2[1] /\ k1[2] = k2[2] /\ Less(k1[3], k2[3])

(* r goes before the first element with a strictly smaller key *)
InsertDescending(sorted, r) ==
  LET smaller == { j \in DOMAIN sorted : KeyLess(SortKey(sorted[j]), SortKey(r)) }
      at == IF smaller = {} THEN Len(sorted) + 1
            ELSE CHOOSE j \in smaller : \A k \in smaller : j <= k
  IN SubSeq(sorted, 1, at - 1) \o <<r>> \o SubSeq(sorted, at, Len(sorted))

InsertAscending(sorted, r) ==
  LET larger == { j \in DOMAIN sorted : KeyLess(SortKey(r), SortKey(sorted[j])) }
      at == IF larger = {} THEN Len(sorted) + 1
            ELSE CHOOSE j \in larger : \A k \in larger : j <= k
  IN SubSeq(sorted, 1, at - 1) \o <<r>> \o SubSeq(sorted, at, Len(sorted))

RECURSIVE SortRulesAscending(_)
SortRulesAscending(rs) ==
  IF rs = <<>> THEN <<>>
  ELSE InsertAscending(SortRulesAscending(SubSeq(rs, 1, Len(rs) - 1)), rs[Len(rs)])

RECURSIVE SortRules(_)
SortRules(rs) ==
  IF rs = <<>> THEN <<>>
  ELSE InsertDescending(SortRules(SubSeq(rs, 1, Len(rs) - 1)), rs[Len(rs)])

(* ---------------- state ---------------- *)
VARIABLES
  transactions,    \* the transaction list the functions are called on
  fn,              \* the function called: "none" before the call
  arg_itemset,     \* calculate_support's itemset
  arg_sizes,       \* all_itemsets' <<min_size, max_size>>
  min_support,     \* generate_rules' parameters
  min_confidence,
  pc,              \* "start", "cache", "rules", "split", "done", "error"
  err,             \* the exception that ended the call, "none" otherwise
  ret_support,     \* calculate_support's return value
  ret_itemsets,    \* the itemsets all_itemsets yielded
  pending,         \* what the all_itemsets generator driving line 51 has yet to yield
  support_cache,   \* the dict of line 49
  idx,             \* position of the loop of line 55 in support_cache.items()
  splits,          \* antecedents of the current itemset still to try
  rules            \* the list of line 54; the return value when pc = "done"

vars == <<transactions, fn, arg_itemset, arg_sizes, min_support, min_confidence, pc, err,
          ret_support, ret_itemsets, pending, support_cache, idx, splits, rules>>

DefaultMinSupport == <<1, 5>>
DefaultMinConfidence == <<1, 2>>
MinConfidences == { <<0, 1>>, DefaultMinConfidence, <<1, 1>> }
(* the default thresholds, min_confidence at its two ends, a min_support   *)
(* that rejects itemsets of positive support, and both gates open          *)
Thresholds ==
  { <<DefaultMinSupport, mc>> : mc \in MinConfidences }
    \cup { << <<3, 5>>, DefaultMinConfidence >>, << <<0, 1>>, <<0, 1>> >> }
MinSizeArgs == (0 - 1)..2
MaxSizeArgs == 0..MaxSizeArg

Init ==
  /\ transactions \in TransactionLists
  /\ fn = "none"
  /\ arg_itemset = {}
  /\ arg_sizes = <<CacheMinSize, CacheMaxSize>>
  /\ min_support = DefaultMinSupport
  /\ min_confidence = DefaultMinConfidence
  /\ pc = "start"
  /\ err = "none"
  /\ ret_support = <<0, 1>>
  /\ ret_itemsets = <<>>
  /\ pending = <<>>
  /\ support_cache = <<>>
  /\ idx = 1
  /\ splits = <<>>
  /\ rules = <<>>

(* ---------------- operations ---------------- *)
(* a direct call of calculate_support(transactions, itemset) *)
CallCalculateSupport ==
  /\ pc = "start"
  /\ \E itemset \in SUBSET (Items \cup Universe(transactions)) :
       LET r == calculate_support(transactions, itemset)
       IN /\ fn' = "calculate_support"
          /\ arg_itemset' = itemset
          /\ err' = r.err
          /\ pc' = IF r.err = "none" THEN "done" ELSE "error"
          /\ ret_support' = IF r.err = "none" THEN r.val ELSE ret_support
  /\ UNCHANGED <<transactions, arg_sizes, min_support, min_confidence, ret_itemsets,
                 pending, support_cache, idx, splits, rules>>

(* list(all_itemsets(transactions, min_size, max_size)) *)
CallAllItemsets ==
  /\ pc = "start"
  /\ \E min_size \in MinSizeArgs, max_size \in MaxSizeArgs :
       LET r == all_itemsets(transactions, min_size, max_size)
       IN /\ fn' = "all_itemsets"
          /\ arg_sizes' = <<min_size, max_size>>
          /\ err' = r.err
          /\ pc' = IF r.err = "none" THEN "done" ELSE "error"
          /\ ret_itemsets' = r.yielded
  /\ UNCHANGED <<transactions, arg_itemset, min_support, min_confidence, ret_support,
                 pending, support_cache, idx, splits, rules>>

(* generate_rules(transactions, min_support, min_confidence): lines 49-51 *)
GenerateRules ==
  /\ pc = "start"
  /\ \E t \in Thresholds :
       /\ min_support' = t[1]
       /\ min_confidence' = t[2]
  /\ fn' = "generate_rules"
  /\ support_cache' = <<>>
  /\ pending' = CacheItemsets(transactions)
  /\ pc' = "cache"
  /\ UNCHANGED <<transactions, arg_itemset, arg_sizes, err, ret_support, ret_itemsets,
                 idx, splits, rules>>

(* line 52: one iteration of the cache-building loop *)
BuildCache ==
  /\ pc = "cache"
  /\ pending # <<>>
  /\ LET itemset == Head(pending)
         r == calculate_support(transactions, itemset)
     IN IF r.err = "none"
        THEN /\ support_cache' = DictSet(support_cache, itemset, r.val)
             /\ pending' = Tail(pending)
             /\ UNCHANGED <<pc, err>>
        ELSE /\ pc' = "error"
             /\ err' = r.err
             /\ UNCHANGED <<support_cache, pending>>
  /\ UNCHANGED <<transactions, fn, arg_itemset, arg_sizes, min_support, min_confidence,
                 ret_support, ret_itemsets, idx, splits, rules>>

(* lines 54-55: the generator is exhausted; the rule loop starts *)
CacheBuilt ==
  /\ pc = "cache"
  /\ pending = <<>>
  /\ rules' = <<>>
  /\ idx' = 1
  /\ pc' = "rules"
  /\ UNCHANGED <<transactions, fn, arg_itemset, arg_sizes, min_support, min_confidence,
                 err, ret_support, ret_itemsets, pending, support_cache, splits>>

(* lines 55-60: the next item of support_cache.items() *)
SelectItemset ==
  /\ pc = "rules"
  /\ idx <= Len(support_cache)
  /\ LET itemset == support_cache[idx][1]
         itemset_support == support_cache[idx][2]
     IN IF SkipItemset(itemset, itemset_support, min_support)
        THEN /\ idx' = idx + 1
             /\ UNCHANGED <<pc, splits>>
        ELSE /\ splits' = Antecedents(itemset)
             /\ pc' = "split"
             /\ UNCHANGED idx
  /\ UNCHANGED <<transactions, fn, arg_itemset, arg_sizes, min_support, min_confidence,
                 err, ret_support, ret_itemsets, pending, support_cache, rules>>

(* lines 62-72: one antecedent of the current itemset *)
DeriveSplit ==
  /\ pc = "split"
  /\ splits # <<>>
  /\ LET itemset == support_cache[idx][1]
         itemset_support == support_cache[idx][2]
         r == DeriveRule(support_cache, itemset, itemset_support, Head(splits))
     IN IF r.err # "none"
        THEN /\ pc' = "error"
             /\ err' = r.err
             /\ UNCHANGED <<rules, splits, idx>>
        ELSE /\ rules' = IF Retain(r.val.confidence, min_confidence)
                         THEN Append(rules, r.val) ELSE rules
             /\ splits' = Tail(splits)
             /\ IF Tail(splits) = <<>>
                THEN pc' = "rules" /\ idx' = idx + 1
                ELSE UNCHANGED <<pc, idx>>
             /\ UNCHANGED err
  /\ UNCHANGED <<transactions, fn, arg_itemset, arg_sizes, min_support, min_confidence,
                 ret_support, ret_itemsets, pending, support_cache>>

(* lines 74-75: sort and return *)
SortAndReturn ==
  /\ pc = "rules"
  /\ idx > Len(support_cache)
  /\ rules' = SortRules(rules)
  /\ pc' = "done"
  /\ UNCHANGED <<transactions, fn, arg_itemset, arg_sizes, min_support, min_confidence,
                 err, ret_support, ret_itemsets, pending, support_cache, idx, splits>>

Next ==
  \/ CallCalculateSupport
  \/ CallAllItemsets
  \/ GenerateRules
  \/ BuildCache
  \/ CacheBuilt
  \/ SelectItemset
  \/ DeriveSplit
  \/ SortAndReturn

Spec == Init /\ [][Next]_vars


(* ======================= properties ======================= *)
Returned == fn = "generate_rules" /\ pc = "done"

(* the transactions that contain S, counted on the transaction list itself *)
Containing(S) == { i \in DOMAIN transactions : S \subseteq transactions[i] }
N(S) == Cardinality(Containing(S))

InUnit(x) == x[2] > 0 /\ 0 <= x[1] /\ x[1] <= x[2]

RuleItemset(r) == r.antecedent \cup r.consequent

(* (A, C) splits an itemset of 2 or 3 items that meets min_support *)
C1_Split(A, C) ==
  /\ A # {} /\ C # {} /\ A \cap C = {}
  /\ Cardinality(A \cup C) \in {2, 3}
  /\ N(A \cup C) * min_support[2] >= min_support[1] * Len(transactions)

C1_Expected(A, C) ==
  /\ C1_Split(A, C)
  /\ N(A \cup C) * min_confidence[2] >= min_confidence[1] * N(A)

C1_Occurrences(A, C) ==
  { i \in DOMAIN rules : rules[i].antecedent = A /\ rules[i].consequent = C }

(* the splits (A, C) of the itemsets of 2 or 3 items of the universe *)
C1_Splits ==
  { <<A, I \ A>> : <<I, A>> \in
      UNION { { <<I, A>> : A \in (SUBSET I) \ { {}, I } } :
                I \in { J \in SUBSET Universe(transactions) : Cardinality(J) \in {2, 3} } } }

(* C1: with a non-empty transaction list and min_support > 0, the returned    *)
(* list holds the rule (A, C) exactly once when A, C are non-empty and        *)
(* disjoint, A \cup C has 2 or 3 items of the universe, support(A \cup C) >=  *)
(* min_support and support(A \cup C) / support(A) >= min_confidence, and not  *)
(* at all otherwise; min_confidence = 0 keeps every split of every itemset    *)
(* that met min_support, min_confidence = 1 keeps only rules whose antecedent *)
(* never occurs without the consequent.                                       *)
C1_RuleSetExact ==
  (Returned /\ Len(transactions) > 0 /\ min_support[1] > 0) =>
    /\ \A i \in DOMAIN rules :
         /\ RuleItemset(rules[i]) \subseteq Universe(transactions)
         /\ C1_Expected(rules[i].antecedent, rules[i].consequent)
         /\ C1_Occurrences(rules[i].antecedent, rules[i].consequent) = {i}
    /\ \A s \in C1_Splits :
         C1_Expected(s[1], s[2]) => C1_Occurrences(s[1], s[2]) # {}
    /\ min_confidence[1] = 0 =>
         \A s \in C1_Splits :
           C1_Split(s[1], s[2]) => C1_Occurrences(s[1], s[2]) # {}
    /\ min_confidence = <<1, 1>> =>
         \A i \in DOMAIN rules : \A t \in Containing(rules[i].antecedent) :
           rules[i].consequent \subseteq transactions[t]

C1_Witness ==
  /\ Returned /\ min_support[1] > 0 /\ min_confidence = <<1, 1>>
  /\ rules # <<>>
  /\ \E s \in C1_Splits : C1_Split(s[1], s[2]) /\ ~C1_Expected(s[1], s[2])

(* q * d = n, for fractions q, d, n *)
C2_TimesEquals(q, d, n) == q[1] * d[1] * n[2] = n[1] * q[2] * d[2]

(* C2: every returned rule carries support = calculate_support of A \cup C,   *)
(* confidence = that support / calculate_support of A, and lift = confidence  *)
(* / calculate_support of C; on the milk/bread/diaper/beer transactions       *)
(* {milk} -> {bread} has support 2/5, confidence 2/3 and lift 5/6.            *)
C2_RuleMetrics ==
  Returned =>
    /\ \A i \in DOMAIN rules :
         LET r == rules[i]
             sI == calculate_support(transactions, RuleItemset(r))
             sA == calculate_support(transactions, r.antecedent)
             sC == calculate_support(transactions, r.consequent)
         IN /\ sI.err = "none" /\ sA.err = "none" /\ sC.err = "none"
            /\ r.support = sI.val
            /\ sI.val = Rat(N(RuleItemset(r)), Len(transactions))
            /\ sA.val[1] > 0 /\ C2_TimesEquals(r.confidence, sA.val, sI.val)
            /\ sC.val[1] > 0 /\ C2_TimesEquals(r.lift, sC.val, r.confidence)
    /\ transactions = MilkExample =>
         \A i \in DOMAIN rules :
           (rules[i].antecedent = {Grocery.milk} /\ rules[i].consequent = {Grocery.bread}) =>
             /\ rules[i].support = <<2, 5>>
             /\ rules[i].confidence = <<2, 3>>
             /\ rules[i].lift = <<5, 6>>

C2_Witness ==
  /\ Returned /\ transactions = MilkExample
  /\ \E i \in DOMAIN rules :
       rules[i].antecedent = {Grocery.milk} /\ rules[i].consequent = {Grocery.bread}

(* C3: in every rule of generate_rules the antecedent and the consequent are  *)
(* non-empty and disjoint and their union is one of the itemsets all_itemsets *)
(* yields for sizes 1..3 on the same transaction list.                        *)
C3_RuleShape ==
  Returned =>
    LET enumerated == SeqToSet(all_itemsets(transactions, 1, 3).yielded)
    IN \A i \in DOMAIN rules :
         /\ rules[i].antecedent # {}
         /\ rules[i].consequent # {}
         /\ rules[i].antecedent \cap rules[i].consequent = {}
         /\ RuleItemset(rules[i]) \in enumerated

C3_Witness ==
  /\ Returned
  /\ \E i \in DOMAIN rules : Cardinality(rules[i].antecedent) = 2
  /\ \E i \in DOMAIN rules : Cardinality(rules[i].consequent) = 2
  /\ \E i \in DOMAIN rules : Cardinality(RuleItemset(rules[i])) = 2

(* C4: on a non-empty transaction list every support value lies in [0, 1]     *)
(* and support(A) >= support(B) whenever A is a subset of B.                  *)
C4_SupportMonotone ==
  /\ (fn = "calculate_support" /\ pc = "done") =>
       /\ InUnit(ret_support)
       /\ ret_support = Rat(N(arg_itemset), Len(transactions))
       /\ \A A \in SUBSET arg_itemset :
            LET a == calculate_support(transactions, A)
            IN a.err = "none" /\ InUnit(a.val) /\ Geq(a.val, ret_support)
  /\ (fn = "generate_rules" /\ pc = "cache" /\ pending = <<>>) =>
       \A i \in DOMAIN support_cache :
         /\ InUnit(support_cache[i][2])
         /\ \A j \in DOMAIN support_cache :
              support_cache[i][1] \subseteq support_cache[j][1] =>
                Geq(support_cache[i][2], support_cache[j][2])

C4_Witness ==
  /\ fn = "calculate_support" /\ pc = "done"
  /\ ret_support[1] > 0
  /\ \E A \in SUBSET arg_itemset :
       A # {} /\ Less(ret_support, calculate_support(transactions, A).val)

C5_KeyGeq(r1, r2) ==
  \/ Less(r2.lift, r1.lift)
  \/ /\ r1.lift = r2.lift
     /\ \/ Less(r2.confidence, r1.confidence)
        \/ /\ r1.confidence = r2.confidence
           /\ Geq(r1.support, r2.support)

C5_KeyEqual(r1, r2) ==
  r1.lift = r2.lift /\ r1.confidence = r2.confidence /\ r1.support = r2.support

C5_Position(seq, x) == CHOOSE k \in DOMAIN seq : seq[k] = x

C5_GeneratedBefore(order, r1, r2) ==
  LET p1 == C5_Position(order, RuleItemset(r1))
      p2 == C5_Position(order, RuleItemset(r2))
  IN \/ p1 < p2
     \/ /\ p1 = p2
        /\ C5_Position(Antecedents(RuleItemset(r1)), r1.antecedent)
             < C5_Position(Antecedents(RuleItemset(r2)), r2.antecedent)

(* C5: the returned list is in descending order of (lift, confidence,         *)
(* support), and rules with three equal key values keep the order in which    *)
(* they were generated (itemset enumeration order, then antecedent order).    *)
C5_SortedStable ==
  Returned =>
    LET order == all_itemsets(transactions, 1, 3).yielded
    IN /\ \A i \in 1..(Len(rules) - 1) : C5_KeyGeq(rules[i], rules[i + 1])
       /\ \A i \in DOMAIN rules : \A j \in DOMAIN rules :
            (i < j /\ C5_KeyEqual(rules[i], rules[j])) =>
              C5_GeneratedBefore(order, rules[i], rules[j])

C5_Witness ==
  /\ Returned
  /\ \E i \in 1..(Len(rules) - 1) : ~C5_KeyGeq(rules[i + 1], rules[i])
  /\ \E i \in 1..(Len(rules) - 1) : C5_KeyEqual(rules[i], rules[i + 1])
  /\ \E i \in DOMAIN rules : \E j \in DOMAIN rules :
       i < j /\ C5_GeneratedBefore(all_itemsets(transactions, 1, 3).yielded,
                                   rules[j], rules[i])

(* C6: on an empty transaction list neither calculate_support nor a           *)
(* generate_rules run returns: each ends in an error.                         *)
C6_EmptyInputFails ==
  (Len(transactions) = 0 /\ fn \in {"calculate_support", "generate_rules"}) =>
    pc # "done"

(* C7: with min_support = 0, a run that reaches a split whose antecedent or   *)
(* consequent has support 0 ends in an error there (or leaves the rule out):  *)
(* no returned rule has an antecedent or a consequent of support 0, so none   *)
(* carries a confidence or lift substituted for a division by zero.           *)
C7_NoZeroSubstitution ==
  (fn = "generate_rules" /\ min_support[1] = 0) =>
    /\ pc = "done" =>
         \A i \in DOMAIN rules :
           N(rules[i].antecedent) > 0 /\ N(rules[i].consequent) > 0
    /\ pc = "error" =>
         /\ err = "ZeroDivisionError"
         /\ splits # <<>>
         /\ \/ N(Head(splits)) = 0
            \/ N(support_cache[idx][1] \ Head(splits)) = 0

C7_Witness ==
  /\ fn = "generate_rules" /\ min_support[1] = 0
  /\ pc = "error" /\ err = "ZeroDivisionError"
  /\ splits # <<>>
  /\ \/ N(Head(splits)) = 0
     \/ N(support_cache[idx][1] \ Head(splits)) = 0

(* C8: a completed all_itemsets(transactions, min_size, max_size) emits       *)
(* exactly the non-empty subsets of the item universe whose size lies in      *)
(* [min_size, max_size], each once, and never the empty set.                  *)
C8_ItemsetsExact ==
  (fn = "all_itemsets" /\ pc = "done") =>
    LET expected == { S \in SUBSET Universe(transactions) :
                        S # {} /\ arg_sizes[1] <= Cardinality(S)
                               /\ Cardinality(S) <= arg_sizes[2] }
    IN /\ SeqToSet(ret_itemsets) = expected
       /\ Len(ret_itemsets) = Cardinality(expected)
       /\ {} \notin SeqToSet(ret_itemsets)

C9_LookupsPresent ==
  fn = "generate_rules" =>
    /\ pc = "cache" => rules = <<>> /\ splits = <<>>
    /\ pc \in {"rules", "split", "done"} => pending = <<>>
    /\ err # "KeyError"
    /\ pc = "split" =>
         /\ idx \in DOMAIN support_cache
         /\ splits # <<>>
         /\ Head(splits) \in DictKeys(support_cache)
         /\ (support_cache[idx][1] \ Head(splits)) \in DictKeys(support_cache)

C9_CacheReadOnly ==
  (pc \in {"rules", "split"}) => support_cache' = support_cache

(* C9: in a generate_rules run the cache is complete before any rule is       *)
(* derived, every itemset looked up during rule derivation (the itemset, the  *)
(* antecedent, the consequent) is a key of the cache, so no lookup misses,    *)
(* and rule derivation does not modify the cache.                             *)
C9_CacheComplete == []C9_LookupsPresent /\ [][C9_CacheReadOnly]_vars

C9_Witness ==
  /\ fn = "generate_rules" /\ pc = "split"
  /\ rules # <<>>
  /\ Cardinality(support_cache[idx][1]) = 3
  /\ Cardinality(Head(splits)) = 2

(* C10: on a non-empty transaction list with min_support > 0 every antecedent *)
(* and consequent support used as a denominator is positive, no division is   *)
(* by zero, and every rule has confidence in [0, 1] and lift >= 0.            *)
C10_PositiveDenominators ==
  (fn = "generate_rules" /\ Len(transactions) > 0 /\ min_support[1] > 0) =>
    /\ err # "ZeroDivisionError"
    /\ pc = "split" =>
         /\ DictGet(support_cache, Head(splits)).val[1] > 0
         /\ DictGet(support_cache, support_cache[idx][1] \ Head(splits)).val[1] > 0
    /\ pc = "done" =>
         \A i \in DOMAIN rules :
           /\ InUnit(rules[i].confidence)
           /\ rules[i].lift[2] > 0 /\ rules[i].lift[1] >= 0

C10_Witness ==
  /\ fn = "generate_rules" /\ Len(transactions) > 0 /\ min_support[1] > 0
  /\ pc = "split"
  /\ \E i \in DOMAIN rules :
       Less(rules[i].confidence, <<1, 1>>) /\ Less(<<1, 1>>, rules[i].lift)

====
